---- MODULE Spec2Model ----
(***************************************************************************)
(* Model of magefile.go of coraza-proxy-wasm: the Build target, the wasm   *)
(* post-processing step patchWasm, and the checkGoVersion start-up check.  *)
(***************************************************************************)
EXTENDS Integers, Sequences, FiniteSets, TLC

VARIABLES
    pc,            \* position of the running function
    env,           \* the INITIAL_PAGES environment variable
    initialPages,  \* Build's local / patchWasm's parameter (Go int)
    compileRun,    \* the docker/tinygo compile command has been started
    inFile,        \* contents of inPath (build/mainraw.wasm)
    raw,           \* patchWasm: bytes read from inPath
    mod,           \* patchWasm: the decoded *wasm.Module
    prev,          \* history: mod as it was before the last patchWasm step
    encoded,       \* patchWasm: out, the bytes returned by EncodeModule
    outFile,       \* contents of outPath (build/main.wasm) written by this run
    err,           \* the error the function returned ("nil" while none)
    steps,         \* history: the patchWasm steps executed so far, in order
    applied,       \* number of applications of the resize edit (resize-only runs)
    goOut,         \* what `go version` and the version regexp produced
    goErr          \* checkGoVersion's result

vars == <<pc, env, initialPages, compileRun, inFile, raw, mod, prev, encoded,
          outFile, err, steps, applied, goOut, goErr>>

----------------------------------------------------------------------------
(* Sizes of the input domains. *)

MaxPages == 1        \* largest min/max page count in an input module
MaxImports == 2      \* most import entries in an input module
MaxEnvLen == 3       \* longest INITIAL_PAGES value
MaxVerLen == 2       \* most digits of a Go minor version
MaxApplied == 3      \* most successive applications of the resize edit

(* Program constants. *)

DefaultInitialPages == 2100

----------------------------------------------------------------------------
(* uint32 values.  A uint32 is kept as its two 16-bit halves, so that the  *)
(* conversion of a negative Go int wraps exactly as in the program.        *)

Uint32(n) == [hi |-> (n \div 65536) % 65536, lo |-> n % 65536]

U32Less(a, b) == a.hi < b.hi \/ (a.hi = b.hi /\ a.lo < b.lo)

U32Leq(a, b) == a = b \/ U32Less(a, b)

(* wasm.MemoryLimitPages: the most pages the format can address. *)
MemoryLimitPages == Uint32(65536)

----------------------------------------------------------------------------
(* Modules as wabin decodes them.  Module.MemorySection is a *Memory, nil   *)
(* when the module has no Memory section; Module.ImportSection is a slice  *)
(* of *Import, so the loop in patchWasm writes through to the entries.     *)
(* A decoded memory has Min <= Max; Max is MemoryLimitPages when the       *)
(* binary encodes no maximum.  Rest stands for all the other sections.     *)

Nil == [nil |-> TRUE]

Memories ==
    {[Min |-> Uint32(mn), Max |-> MemoryLimitPages, IsMaxEncoded |-> FALSE] :
        mn \in 0..MaxPages}
    \cup
    UNION {{[Min |-> Uint32(mn), Max |-> Uint32(mx), IsMaxEncoded |-> TRUE] :
                mx \in mn..MaxPages} : mn \in 0..MaxPages}

ImportEntries ==
    [Module : {"wasi_snapshot_preview1", "env"},
     Name   : {"fd_filestat_get", "path_filestat_get", "fd_write"},
     Type   : {"func"},
     Desc   : {1}]
    \cup
    [Module : {"wasi_snapshot_preview1", "env"},
     Name   : {"fd_filestat_get", "path_filestat_get", "fd_write"},
     Type   : {"global"},
     Desc   : {0}]

ImportLists == UNION {[1..n -> ImportEntries] : n \in 0..MaxImports}

Modules ==
    [MemorySection : Memories \cup {Nil},
     ImportSection : ImportLists,
     Rest          : {"sections"}]

EncodeModule(m) == [kind |-> "wasm", mod |-> m]

InputFiles ==
    {[kind |-> "absent"], [kind |-> "malformed"]} \cup {EncodeModule(m) : m \in Modules}

PageCounts == {-1, 0, 1, 2, DefaultInitialPages, 65536, 65537}

----------------------------------------------------------------------------
(* patchWasm: the pure parts. *)

NoModule == [MemorySection |-> Nil, ImportSection |-> <<>>, Rest |-> "none"]

NoBytes == [kind |-> "none"]

(* binary.DecodeModule: an error for bytes that are no module, else the module. *)
DecodeModule(bytes) ==
    IF bytes.kind = "wasm"
    THEN [err |-> "nil", mod |-> bytes.mod]
    ELSE [err |-> "decode", mod |-> NoModule]

(* A resize that adds the page count to the minimum instead of storing it. *)
ResizeMemoryGrow(mem, pages) == [mem EXCEPT !.Min = Uint32(@.lo + pages)]

(* mod.MemorySection.Min = uint32(initialPages) *)
ResizeMemory(mem, pages) == [mem EXCEPT !.Min = Uint32(pages)]

(* The body of the loop over the import section: the switch on imp.Name. *)
RemapImport(imp) ==
    CASE imp.Name = "fd_filestat_get" ->
            [imp EXCEPT !.Name = "fd_fdstat_get"]
      [] imp.Name = "path_filestat_get" ->
            [imp EXCEPT !.Module = "env", !.Name = "proxy_get_header_map_value"]
      [] OTHER -> imp

(* A loop that stops at the first entry it rewrites. *)
RemapImportsFirstOnly(imports) ==
    LET hits == {k \in DOMAIN imports : RemapImport(imports[k]) # imports[k]}
    IN  [k \in DOMAIN imports |->
            IF k \in hits /\ \A j \in hits : k <= j
            THEN RemapImport(imports[k]) ELSE imports[k]]

(* A loop that drops the entries it does not rewrite into a fresh slice. *)
RemapImportsMoveFront(imports) ==
    LET RECURSIVE Pick(_, _)
        Pick(k, hit) ==
            IF k > Len(imports) THEN <<>>
            ELSE IF (RemapImport(imports[k]) # imports[k]) = hit
                 THEN <<RemapImport(imports[k])>> \o Pick(k + 1, hit)
                 ELSE Pick(k + 1, hit)
    IN  Pick(1, TRUE) \o Pick(1, FALSE)

(* for _, imp := range mod.ImportSection { switch ... } *)
RemapImports(imports) == [k \in DOMAIN imports |-> RemapImport(imports[k])]

----------------------------------------------------------------------------
(* patchWasm: one action per statement. *)

PatchFrame == UNCHANGED <<env, initialPages, compileRun, inFile, applied, goOut, goErr>>

(* raw, err := os.ReadFile(inPath) *)
ReadFile ==
    /\ pc = "read"
    /\ steps' = Append(steps, "read")
    /\ IF inFile.kind = "absent"
       THEN /\ err' = "read"
            /\ pc' = "done"
            /\ raw' = raw
       ELSE /\ raw' = inFile
            /\ pc' = "decode"
            /\ err' = err
    /\ prev' = mod
    /\ UNCHANGED <<mod, encoded, outFile>>
    /\ PatchFrame

(* A decode whose error is not checked. *)
DecodeIgnoringError ==
    /\ pc = "decode"
    /\ steps' = Append(steps, "decode")
    /\ mod' = DecodeModule(raw).mod
    /\ pc' = "resize"
    /\ prev' = mod
    /\ UNCHANGED <<raw, encoded, outFile, err>>
    /\ PatchFrame

(* mod, err := binary.DecodeModule(raw, wasm.CoreFeaturesV2) *)
Decode ==
    /\ pc = "decode"
    /\ steps' = Append(steps, "decode")
    /\ LET r == DecodeModule(raw)
       IN  IF r.err # "nil"
           THEN /\ err' = r.err
                /\ pc' = "done"
                /\ mod' = mod
           ELSE /\ mod' = r.mod
                /\ pc' = "resize"
                /\ err' = err
    /\ prev' = mod
    /\ UNCHANGED <<raw, encoded, outFile>>
    /\ PatchFrame

(* mod.MemorySection.Min = uint32(initialPages); MemorySection is a pointer, *)
(* nil when the module has no Memory section: the store then panics.         *)
Resize ==
    /\ pc = "resize"
    /\ steps' = Append(steps, "resize")
    /\ IF mod.MemorySection = Nil
       THEN /\ pc' = "panic"
            /\ mod' = mod
       ELSE /\ mod' = [mod EXCEPT !.MemorySection = ResizeMemory(@, initialPages)]
            /\ pc' = "remap"
    /\ prev' = mod
    /\ UNCHANGED <<raw, encoded, outFile, err>>
    /\ PatchFrame

(* A remap that fails the run when one of its names is not imported. *)
RemapFailOnMiss ==
    /\ pc = "remap"
    /\ steps' = Append(steps, "remap")
    /\ mod' = [mod EXCEPT !.ImportSection = RemapImports(@)]
    /\ IF \A n \in {"fd_filestat_get", "path_filestat_get"} :
             \E k \in DOMAIN mod.ImportSection : mod.ImportSection[k].Name = n
       THEN pc' = "encode" /\ err' = err
       ELSE pc' = "done" /\ err' = "remap"
    /\ prev' = mod
    /\ UNCHANGED <<raw, encoded, outFile>>
    /\ PatchFrame

(* for _, imp := range mod.ImportSection { ... } *)
Remap ==
    /\ pc = "remap"
    /\ steps' = Append(steps, "remap")
    /\ mod' = [mod EXCEPT !.ImportSection = RemapImports(@)]
    /\ pc' = "encode"
    /\ prev' = mod
    /\ UNCHANGED <<raw, encoded, outFile, err>>
    /\ PatchFrame

(* out := binary.EncodeModule(mod) *)
Encode ==
    /\ pc = "encode"
    /\ steps' = Append(steps, "encode")
    /\ encoded' = EncodeModule(mod)
    /\ pc' = "write"
    /\ prev' = mod
    /\ UNCHANGED <<raw, mod, outFile, err>>
    /\ PatchFrame

(* os.WriteFile(outPath, out, 0644): on failure the file may be missing or cut short. *)
WriteFile ==
    /\ pc = "write"
    /\ steps' = Append(steps, "write")
    /\ \/ /\ outFile' = encoded
          /\ err' = err
       \/ /\ outFile' \in {NoBytes, [kind |-> "partial"]}
          /\ err' = "write"
    /\ pc' = "done"
    /\ prev' = mod
    /\ UNCHANGED <<raw, mod, encoded>>
    /\ PatchFrame

PatchNext == ReadFile \/ Decode \/ Resize \/ Remap \/ Encode \/ WriteFile

NoEnv == [set |-> FALSE, val |-> <<>>]

NoGoOut == [kind |-> "none"]

(* patchWasm called with any page count on any input file. *)
Init ==
    /\ pc = "read"
    /\ env = NoEnv
    /\ initialPages \in PageCounts
    /\ compileRun = FALSE
    /\ inFile \in InputFiles
    /\ raw = NoBytes
    /\ mod = NoModule
    /\ prev = NoModule
    /\ encoded = NoBytes
    /\ outFile = NoBytes
    /\ err = "nil"
    /\ steps = <<>>
    /\ applied = 0
    /\ goOut = NoGoOut
    /\ goErr = "nil"

Next == PatchNext

Spec == Init /\ [][Next]_vars

----------------------------------------------------------------------------
(* Properties of patchWasm (specification Spec). *)

PatchOrder == <<"read", "decode", "resize", "remap", "encode", "write">>

Ran(step) == \E i \in DOMAIN steps : steps[i] = step

RuleNames == {"fd_filestat_get", "path_filestat_get"}

Imports == mod.ImportSection

PrevImports == prev.ImportSection

(* C1: for a memory with declared maximum M and a requested page count     *)
(* N > M, after the resize the minimum is N and the maximum has been       *)
(* raised to N; the minimum never exceeds the declared maximum, neither in *)
(* the module after the resize nor in the encoded output.                  *)
C1_MaxRaisedWithMin ==
    LET Raising ==
            /\ raw.kind = "wasm"
            /\ raw.mod.MemorySection # Nil
            /\ raw.mod.MemorySection.IsMaxEncoded
            /\ initialPages \in 0..65536
            /\ U32Less(raw.mod.MemorySection.Max, Uint32(initialPages))
    IN  /\ Raising /\ Ran("resize") =>
              /\ mod.MemorySection.Min = Uint32(initialPages)
              /\ mod.MemorySection.Max = Uint32(initialPages)
              /\ U32Leq(mod.MemorySection.Min, mod.MemorySection.Max)
        /\ Raising /\ outFile.kind = "wasm" =>
              U32Leq(outFile.mod.MemorySection.Min, outFile.mod.MemorySection.Max)

InvalidResize ==
    /\ raw.kind = "wasm"
    /\ \/ raw.mod.MemorySection = Nil
       \/ initialPages < 0
       \/ initialPages > 65536

(* C2: when the decoded module has no Memory section, or the page count is *)
(* negative or above the format's maximum page count, the resize ends the  *)
(* run with a returned error: the minimum is not set (no wrapped uint32 is *)
(* stored) and no output is produced.                                      *)
C2_InvalidResizeReturnsError ==
    Ran("resize") /\ InvalidResize =>
        /\ pc = "done"
        /\ err # "nil"
        /\ mod.MemorySection = raw.mod.MemorySection
        /\ encoded = NoBytes
        /\ outFile = NoBytes

(* C3: the import remap changes at most the Module and Name strings of     *)
(* import entries: the number of entries, the position, kind and payload   *)
(* of every entry are as decoded, entries no rule names are untouched, and *)
(* the step changes no other section.                                      *)
C3_RemapKeepsIndexSpace ==
    /\ Ran("remap") =>
          /\ Len(Imports) = Len(raw.mod.ImportSection)
          /\ \A k \in DOMAIN Imports :
                /\ Imports[k].Type = raw.mod.ImportSection[k].Type
                /\ Imports[k].Desc = raw.mod.ImportSection[k].Desc
                /\ raw.mod.ImportSection[k].Name \notin RuleNames =>
                      Imports[k] = raw.mod.ImportSection[k]
          /\ mod.Rest = raw.mod.Rest
    /\ pc = "encode" =>
          /\ DOMAIN Imports = DOMAIN PrevImports
          /\ mod.MemorySection = prev.MemorySection
          /\ mod.Rest = prev.Rest
          /\ <<raw, encoded, outFile, err>> = <<inFile, NoBytes, NoBytes, "nil">>

C3_Witness ==
    /\ pc = "encode"
    /\ Len(Imports) >= 2
    /\ Imports[2] # PrevImports[2]
    /\ Imports[1] = PrevImports[1]
    /\ Imports[1].Type # Imports[2].Type

(* C4: the steps of a run are a prefix of read, decode, resize, remap,     *)
(* encode, write (in that order, each at most once); a failed read or      *)
(* decode ends the run at that step with that error; the output file is    *)
(* written only by the write step, after every earlier step succeeded.     *)
C4_StepsInOrderOutputLast ==
    /\ Len(steps) <= Len(PatchOrder)
    /\ \A i \in DOMAIN steps : steps[i] = PatchOrder[i]
    /\ outFile # NoBytes => steps = PatchOrder /\ inFile.kind = "wasm" /\ pc = "done"
    /\ inFile.kind = "absent" /\ steps # <<>> =>
          pc = "done" /\ err = "read" /\ steps = <<"read">>
    /\ inFile.kind = "malformed" /\ Ran("decode") =>
          pc = "done" /\ err = "decode" /\ steps = <<"read", "decode">>
    /\ pc = "done" /\ steps # PatchOrder => err # "nil" /\ outFile = NoBytes
    /\ pc = "panic" => outFile = NoBytes /\ steps = <<"read", "decode", "resize">>
    /\ pc = "done" /\ err = "nil" => outFile = encoded /\ outFile.kind = "wasm"

C4_Witness ==
    pc = "done" /\ err = "nil" /\ steps = PatchOrder /\ outFile.kind = "wasm"

Targeted(imports, j, k) ==
    /\ j < k
    /\ imports[j].Name \in RuleNames
    /\ imports[j].Name = imports[k].Name
    /\ imports[j].Module = imports[k].Module

(* C5 as stated: of two or more import entries with the same (namespace,  *)
(* field) pair that a rule targets, only the first in section order is     *)
(* rewritten; every later duplicate keeps its namespace and field name.    *)
C5_OnlyFirstDuplicateRewritten ==
    pc = "encode" =>
        \A j, k \in DOMAIN PrevImports :
            Targeted(PrevImports, j, k) => Imports[k] = PrevImports[k]

Rewritten(old, new) ==
    \/ /\ old.Name = "fd_filestat_get"
       /\ new = [old EXCEPT !.Name = "fd_fdstat_get"]
    \/ /\ old.Name = "path_filestat_get"
       /\ new = [old EXCEPT !.Module = "env", !.Name = "proxy_get_header_map_value"]

(* C5 amended: of two or more import entries with the same (namespace,     *)
(* field) pair that a rule targets, every one is rewritten, the first and  *)
(* each later duplicate alike, each in its own position.                   *)
C5_EveryDuplicateRewritten ==
    pc = "encode" =>
        \A j, k \in DOMAIN PrevImports :
            Targeted(PrevImports, j, k) =>
                /\ Rewritten(PrevImports[j], Imports[j])
                /\ Rewritten(PrevImports[k], Imports[k])

C5_Witness ==
    /\ pc = "encode"
    /\ Len(PrevImports) = 2
    /\ Targeted(PrevImports, 1, 2)
    /\ Imports[1].Name = "fd_fdstat_get"
    /\ Imports[2].Name = "fd_fdstat_get"

(* C6: a rule rewrites an entry only if both the entry's namespace and its *)
(* field name equal the rule's.  Whatever namespace a rule has, two        *)
(* entries with the rule's field name and different namespaces cannot both *)
(* match it, so at most one of them is rewritten.                          *)
C6_NamespaceMustMatch ==
    pc = "encode" =>
        \A j, k \in DOMAIN PrevImports :
            /\ PrevImports[j].Name \in RuleNames
            /\ PrevImports[j].Name = PrevImports[k].Name
            /\ PrevImports[j].Module # PrevImports[k].Module
            => Imports[j] = PrevImports[j] \/ Imports[k] = PrevImports[k]

Missing(name) ==
    /\ raw.kind = "wasm"
    /\ \A k \in DOMAIN raw.mod.ImportSection : raw.mod.ImportSection[k].Name # name

(* C7: when no import entry has a rule's name, the remap step still        *)
(* succeeds and the run goes on to encode and write; the imports differ    *)
(* from the decoded ones only by the other rule's rewrites, and a finished *)
(* run has written the module with those imports and the resized memory.   *)
C7_MissingRuleTolerated ==
    \A name \in RuleNames :
        Missing(name) /\ Ran("remap") =>
            /\ pc \in {"encode", "write", "done"}
            /\ pc # "done" => err = "nil"
            /\ err \in {"nil", "write"}
            /\ \A k \in DOMAIN Imports :
                  \/ Imports[k] = raw.mod.ImportSection[k]
                  \/ /\ raw.mod.ImportSection[k].Name \in RuleNames \ {name}
                     /\ Rewritten(raw.mod.ImportSection[k], Imports[k])
            /\ DOMAIN Imports = DOMAIN raw.mod.ImportSection
            /\ mod.MemorySection =
                  [raw.mod.MemorySection EXCEPT !.Min = Uint32(initialPages)]
            /\ mod.Rest = raw.mod.Rest
            /\ pc = "done" /\ err = "nil" => outFile = [kind |-> "wasm", mod |-> mod]

C7_Witness ==
    /\ pc = "done"
    /\ err = "nil"
    /\ Missing("fd_filestat_get")
    /\ \E k \in DOMAIN Imports :
          /\ raw.mod.ImportSection[k].Name = "path_filestat_get"
          /\ outFile.mod.ImportSection[k].Name = "proxy_get_header_map_value"
    /\ \E k \in DOMAIN Imports : outFile.mod.ImportSection[k] = raw.mod.ImportSection[k]

----------------------------------------------------------------------------
(* The resize edit applied repeatedly to one module. *)

ResizeAgain ==
    /\ pc = "resizing"
    /\ applied < MaxApplied
    /\ prev' = mod
    /\ mod' = [mod EXCEPT !.MemorySection = ResizeMemory(@, initialPages)]
    /\ applied' = applied + 1
    /\ UNCHANGED <<pc, env, initialPages, compileRun, inFile, raw, encoded, outFile,
                   err, steps, goOut, goErr>>

ResizeInit ==
    /\ pc = "resizing"
    /\ env = NoEnv
    /\ initialPages \in PageCounts
    /\ compileRun = FALSE
    /\ inFile \in {EncodeModule(m) : m \in {x \in Modules : x.MemorySection # Nil}}
    /\ raw = inFile
    /\ mod = inFile.mod
    /\ prev = inFile.mod
    /\ encoded = NoBytes
    /\ outFile = NoBytes
    /\ err = "nil"
    /\ steps = <<>>
    /\ applied = 0
    /\ goOut = NoGoOut
    /\ goErr = "nil"

ResizeNext == ResizeAgain

SpecResize == ResizeInit /\ [][ResizeNext]_vars

(* C8: for a module with a Memory section and a page count N, applying the *)
(* resize to N a second (or later) time leaves the module exactly as the   *)
(* first application left it: same minimum, same maximum, same everything. *)
C8_ResizeIdempotent ==
    /\ applied >= 2 => mod = prev
    /\ applied >= 1 =>
          /\ mod.MemorySection.Max = inFile.mod.MemorySection.Max
          /\ mod.MemorySection.IsMaxEncoded = inFile.mod.MemorySection.IsMaxEncoded
          /\ mod.ImportSection = inFile.mod.ImportSection
          /\ mod.Rest = inFile.mod.Rest

C8_Witness ==
    /\ applied = 2
    /\ initialPages \in 1..65536
    /\ mod.MemorySection # inFile.mod.MemorySection
    /\ mod.MemorySection.Min = [hi |-> initialPages \div 65536, lo |-> initialPages % 65536]

----------------------------------------------------------------------------
(* strconv.Atoi on a string kept as a sequence of one-character strings. *)

DigitVal ==
    ("0" :> 0) @@ ("1" :> 1) @@ ("2" :> 2) @@ ("3" :> 3) @@ ("4" :> 4) @@
    ("5" :> 5) @@ ("6" :> 6) @@ ("7" :> 7) @@ ("8" :> 8) @@ ("9" :> 9)

IsDigit(ch) == ch \in DOMAIN DigitVal

Strings(chars, lo, hi) == UNION {[1..n -> chars] : n \in lo..hi}

(* The strings here are shorter than 19 bytes, Atoi's fast path: an        *)
(* optional sign, then one or more digits folded left to right.            *)
Atoi(str) ==
    LET signed == str # <<>> /\ str[1] \in {"-", "+"}
        body   == IF signed THEN Tail(str) ELSE str
        RECURSIVE Fold(_, _)
        Fold(i, n) == IF i > Len(body) THEN n
                      ELSE Fold(i + 1, n * 10 + DigitVal[body[i]])
    IN  IF body = <<>> \/ \E i \in DOMAIN body : ~IsDigit(body[i])
        THEN [val |-> 0, err |-> "syntax"]
        ELSE [val |-> IF str[1] = "-" THEN 0 - Fold(1, 0) ELSE Fold(1, 0),
              err |-> "nil"]

----------------------------------------------------------------------------
(* Build. *)

EnvChars == {"0", "1", "7", "-", "+", "x"}

Envs == {NoEnv} \cup {[set |-> TRUE, val |-> v] : v \in Strings(EnvChars, 0, MaxEnvLen)}

(* os.Getenv: the value, or "" when the variable is not set. *)
Getenv(e) == IF e.set THEN e.val ELSE <<>>

(* What the tinygo compile leaves at build/mainraw.wasm. *)
CompiledFiles ==
    {EncodeModule(
        [MemorySection |-> mem,
         ImportSection |->
            <<[Module |-> "wasi_snapshot_preview1", Name |-> "fd_write",
               Type |-> "func", Desc |-> 1],
              [Module |-> "wasi_snapshot_preview1", Name |-> "fd_filestat_get",
               Type |-> "func", Desc |-> 1]>>,
         Rest |-> "sections"]) :
        mem \in {m \in Memories : m.Min = Uint32(1)}}

BuildFrame == UNCHANGED <<env, raw, mod, prev, encoded, outFile, steps, applied, goOut, goErr>>

(* os.MkdirAll("build", 0755) *)
BuildMkdir ==
    /\ pc = "mkdir"
    /\ \/ pc' = "getenv" /\ err' = err
       \/ pc' = "done" /\ err' = "mkdir"
    /\ UNCHANGED <<initialPages, compileRun, inFile>>
    /\ BuildFrame

(* A Build that keeps the default and goes on when INITIAL_PAGES does not parse. *)
BuildInitialPagesIgnoringError ==
    /\ pc = "getenv"
    /\ LET ipEnv == Getenv(env)
       IN  initialPages' = IF ipEnv # <<>> /\ Atoi(ipEnv).err = "nil"
                           THEN Atoi(ipEnv).val ELSE DefaultInitialPages
    /\ pc' = "getwd"
    /\ UNCHANGED <<compileRun, inFile, err>>
    /\ BuildFrame

(* initialPages := 2100; if ipEnv := os.Getenv("INITIAL_PAGES"); ipEnv != "" { ... } *)
BuildInitialPages ==
    /\ pc = "getenv"
    /\ LET ipEnv == Getenv(env)
       IN  IF ipEnv # <<>>
           THEN IF Atoi(ipEnv).err # "nil"
                THEN /\ err' = "atoi"
                     /\ pc' = "done"
                     /\ initialPages' = DefaultInitialPages
                ELSE /\ initialPages' = Atoi(ipEnv).val
                     /\ pc' = "getwd"
                     /\ err' = err
           ELSE /\ initialPages' = DefaultInitialPages
                /\ pc' = "getwd"
                /\ err' = err
    /\ UNCHANGED <<compileRun, inFile>>
    /\ BuildFrame

(* wd, err := os.Getwd() *)
BuildGetwd ==
    /\ pc = "getwd"
    /\ \/ pc' = "compile" /\ err' = err
       \/ pc' = "done" /\ err' = "getwd"
    /\ UNCHANGED <<initialPages, compileRun, inFile>>
    /\ BuildFrame

(* sh.RunV("docker", "run", ..., "bash", "-c", script); on success Build   *)
(* returns patchWasm(build/mainraw.wasm, build/main.wasm, initialPages).   *)
BuildCompile ==
    /\ pc = "compile"
    /\ compileRun' = TRUE
    /\ \/ /\ inFile' \in CompiledFiles
          /\ pc' = "read"
          /\ err' = err
       \/ /\ inFile' = inFile
          /\ pc' = "done"
          /\ err' = "compile"
    /\ UNCHANGED initialPages
    /\ BuildFrame

BuildInit ==
    /\ pc = "mkdir"
    /\ env \in Envs
    /\ initialPages = 0
    /\ compileRun = FALSE
    /\ inFile = [kind |-> "absent"]
    /\ raw = NoBytes
    /\ mod = NoModule
    /\ prev = NoModule
    /\ encoded = NoBytes
    /\ outFile = NoBytes
    /\ err = "nil"
    /\ steps = <<>>
    /\ applied = 0
    /\ goOut = NoGoOut
    /\ goErr = "nil"

BuildNext ==
    \/ BuildMkdir \/ BuildInitialPages \/ BuildGetwd \/ BuildCompile
    \/ ReadFile \/ Decode \/ Resize \/ Remap \/ Encode \/ WriteFile

SpecBuild == BuildInit /\ [][BuildNext]_vars

IsDecimalInteger(str) ==
    LET body == IF str # <<>> /\ str[1] \in {"-", "+"} THEN Tail(str) ELSE str
    IN  body # <<>> /\ \A i \in DOMAIN body : body[i] \in DOMAIN DigitVal

RECURSIVE Pow10(_)
Pow10(n) == IF n = 0 THEN 1 ELSE 10 * Pow10(n - 1)

RECURSIVE PlaceSum(_)
PlaceSum(digits) ==
    IF digits = <<>> THEN 0
    ELSE DigitVal[Head(digits)] * Pow10(Len(digits) - 1) + PlaceSum(Tail(digits))

DecimalValue(str) ==
    IF str[1] = "-" THEN 0 - PlaceSum(Tail(str))
    ELSE IF str[1] = "+" THEN PlaceSum(Tail(str))
    ELSE PlaceSum(str)

PatchWasmCalled == pc \in {"read", "decode", "resize", "remap", "encode", "write", "panic"}
                   \/ steps # <<>>

(* C9: Build calls patchWasm with 2100 pages when INITIAL_PAGES is unset   *)
(* or empty and with the integer value of INITIAL_PAGES when that is a     *)
(* decimal integer; when INITIAL_PAGES is set and is no integer, Build     *)
(* returns the parse error before the compile command is run and before    *)
(* patchWasm is called: nothing is patched or written.                     *)
C9_InitialPagesFromEnv ==
    LET ipEnv == Getenv(env)
    IN  /\ PatchWasmCalled /\ ipEnv = <<>> => initialPages = 2100
        /\ PatchWasmCalled /\ ipEnv # <<>> =>
              IsDecimalInteger(ipEnv) /\ initialPages = DecimalValue(ipEnv)
        /\ ipEnv # <<>> /\ ~IsDecimalInteger(ipEnv) =>
              /\ ~compileRun
              /\ ~PatchWasmCalled
              /\ mod = NoModule /\ outFile = NoBytes
              /\ pc \in {"mkdir", "getenv", "done"}
              /\ pc = "done" => err \in {"mkdir", "atoi"}
        /\ err = "atoi" => pc = "done" /\ ~compileRun /\ ~PatchWasmCalled
        /\ outFile.kind = "wasm" =>
              outFile.mod.MemorySection.Min =
                  Uint32(IF ipEnv = <<>> THEN 2100 ELSE DecimalValue(ipEnv))

C9_Witness ==
    /\ pc = "done"
    /\ Getenv(env) = <<"1", "7">>
    /\ initialPages = 17
    /\ outFile.kind = "wasm"
    /\ outFile.mod.MemorySection.Min = [hi |-> 0, lo |-> 17]

----------------------------------------------------------------------------
(* checkGoVersion. *)

(* var minGoVersion = "1.19", as strings.SplitN(minGoVersion, ".", 3) cuts it. *)
MinGoVersionParts == <<(<<"1">>), (<<"1", "9">>)>>

VerChars == {"0", "1", "2", "9"}

(* The result of sh.Output("go", "version") and of FindStringSubmatch with *)
(* "go([0-9]+).([0-9]+).?([0-9]+)?": the command failed, nothing matched,  *)
(* or the three groups, the last one empty when there is no patch version. *)
GoOutputs ==
    {[kind |-> "failed"], [kind |-> "nomatch"]}
    \cup
    {[kind |-> "match", compare |-> <<major, minor, patch>>] :
        major \in Strings(VerChars, 1, 1),
        minor \in Strings(VerChars, 1, MaxVerLen),
        patch \in Strings(VerChars, 0, 1)}

CheckGoVersionResult(out) ==
    IF out.kind = "failed" THEN "go error"
    ELSE IF out.kind = "nomatch" THEN "semver"
    ELSE LET compare == IF out.compare[3] = <<>>
                        THEN [out.compare EXCEPT ![3] = <<"0">>]
                        ELSE out.compare
             base    == IF Len(MinGoVersionParts) = 2
                        THEN Append(MinGoVersionParts, <<"0">>)
                        ELSE MinGoVersionParts
         IN  IF \E i \in 1..3 : Atoi(base[i]).val > Atoi(compare[i]).val
             THEN "version"
             ELSE "nil"

(* func checkGoVersion() error *)
CheckGoVersion ==
    /\ pc = "checkGoVersion"
    /\ goErr' = CheckGoVersionResult(goOut)
    /\ pc' = "checked"
    /\ UNCHANGED <<env, initialPages, compileRun, inFile, raw, mod, prev, encoded,
                   outFile, err, steps, applied, goOut>>

(* init(): a failed check prints the error and exits with status 1. *)
ExitOnError ==
    /\ pc = "checked"
    /\ pc' = IF goErr # "nil" THEN "exit 1" ELSE "running"
    /\ UNCHANGED <<env, initialPages, compileRun, inFile, raw, mod, prev, encoded,
                   outFile, err, steps, applied, goOut, goErr>>

GoVersionInit ==
    /\ pc = "checkGoVersion"
    /\ env = NoEnv
    /\ initialPages = 0
    /\ compileRun = FALSE
    /\ inFile = [kind |-> "absent"]
    /\ raw = NoBytes
    /\ mod = NoModule
    /\ prev = NoModule
    /\ encoded = NoBytes
    /\ outFile = NoBytes
    /\ err = "nil"
    /\ steps = <<>>
    /\ applied = 0
    /\ goOut \in GoOutputs
    /\ goErr = "nil"

GoVersionNext == CheckGoVersion \/ ExitOnError

SpecGoVersion == GoVersionInit /\ [][GoVersionNext]_vars

SemverAtLeast(v, w) ==
    \/ v[1] > w[1]
    \/ v[1] = w[1] /\ v[2] > w[2]
    \/ v[1] = w[1] /\ v[2] = w[2] /\ v[3] >= w[3]

InstalledVersion ==
    <<PlaceSum(goOut.compare[1]), PlaceSum(goOut.compare[2]), PlaceSum(goOut.compare[3])>>

(* C10: checkGoVersion returns no error exactly when the installed version *)
(* (major, minor, patch), a missing patch counting as 0, is at least       *)
(* 1.19.0 in semantic-version order: major first, then minor, then patch.  *)
C10_AcceptsExactlyFromMinimum ==
    pc # "checkGoVersion" /\ goOut.kind = "match" =>
        (goErr = "nil" <=> SemverAtLeast(InstalledVersion, <<1, 19, 0>>))

====
